---- MODULE Spec2Model ----
(***************************************************************************)
(* Model of src/main.js: the trema (exclusion circle) generator, the       *)
(* rejection sampler, the buffer upload and the UI / frame event handlers.  *)
(*                                                                         *)
(* Numbers.  JavaScript numbers are modelled as exact rationals on a fixed  *)
(* grid: a length is an integer count of 1/Unit, a squared length an        *)
(* integer count of 1/Unit^2.  rand() returns k/RandDen for a k in          *)
(* 0..RandDen-1, so every value of [0,1) on the grid, and never 1.          *)
(* Floating-point rounding (of the double arithmetic and of the             *)
(* Float32Array narrowing at the return of generatePointsFromTremas) is     *)
(* not part of the model.                                                   *)
(*                                                                         *)
(* Control.  JavaScript runs a handler to completion: pc is the position    *)
(* inside the running regenerate() call, and events and frames are          *)
(* dispatched only when pc = "idle".                                        *)
(***************************************************************************)
EXTENDS Integers, Sequences, FiniteSets

VARIABLES
    params,        \* the params object (line 34)
    animPaused,    \* line 62
    canvas,        \* canvas.width / canvas.height, set by resizeCanvas
    frame,         \* what the last renderLoop frame sent to the GPU
    event,         \* the event whose handler ran last (observer)
    runs,          \* regenerate() calls that handler has completed (observer)
    pc,            \* position of the running script / handler
    tremas, level, i,                               \* locals of buildTremas
    samples, positions, colors, levels, attempts,   \* locals of generatePointsFromTremas
    data,          \* value returned by generatePointsFromTremas
    posBuffer, colorBuffer, levelBuffer,            \* contents of the three GPU buffers
    currentCount,  \* line 132
    lastTremas     \* window._lastTremas

vars == <<params, animPaused, canvas, frame, event, runs, pc, tremas, level, i,
          samples, positions, colors, levels, attempts, data,
          posBuffer, colorBuffer, levelBuffer, currentCount, lastTremas>>

uiVars == <<params, animPaused, canvas, frame, event, runs>>
buildVars == <<tremas, level, i>>
sampleVars == <<samples, positions, colors, levels, attempts>>
gpuVars == <<posBuffer, colorBuffer, levelBuffer, currentCount, lastTremas>>

----------------------------------------------------------------------------
(* Bounds of the model *)

\* rand() draws k/RandDen, k in 0..RandDen-1
RandDen == 4
\* depth takes the values 0..MaxDepth
MaxDepth == 3

\* deepest level a circle can carry
MaxLevel == IF MaxDepth > 0 THEN MaxDepth - 1 ELSE 0

----------------------------------------------------------------------------
(* Arithmetic helpers *)

RECURSIVE Pow(_, _)
Pow(b, n) == IF n = 0 THEN 1 ELSE b * Pow(b, n - 1)

Max(a, b) == IF a >= b THEN a ELSE b

\* lengths are counted in 1/Unit; Unit makes every radius and coordinate whole
Unit == 100 * RandDen * Pow(2, MaxLevel)

\* squared lengths are counted in 1/Unit2
Unit2 == Unit * Unit

----------------------------------------------------------------------------
(* Random source, lines 69-70 *)

\* the numerators rand() can return
Rand == 0 .. (RandDen - 1)

\* randRange(a, b) = a + (b - a) * rand(), for the draw k/RandDen
randRange(a, b, k) == a + ((b - a) * k) \div RandDen

----------------------------------------------------------------------------
(* buildTremas, lines 73-92 *)

\* const scale = Math.pow(0.5, level), in 1/Unit
scale(lv) == Unit \div Pow(2, lv)

\* const levelRadius = baseRadius * scale; baseRadius is counted in tenths
levelRadius(baseRadius, lv) == (baseRadius * scale(lv)) \div 10

\* defect variant of count: line 82 without Math.max(1, ...)
count_NoFloorOfOne(density, lv) == (density * Pow(2, lv + 1) * 30) \div 100

\* const count = Math.max(1, Math.floor(density * Math.pow(2, level+1) * 30));
\* density is counted in hundredths
count(density, lv) == Max(1, (density * Pow(2, lv + 1) * 30) \div 100)

\* defect variant of jitter: line 87 with a jitter of 0.8 + 0.8*rand()
jitter_Wide(lr, k) == (lr * (8 * RandDen + 8 * k)) \div (10 * RandDen)

\* const r = levelRadius * (0.8 + 0.4*rand()), for the draw k/RandDen
jitter(lr, k) == (lr * (8 * RandDen + 4 * k)) \div (10 * RandDen)

\* the object pushed at line 88
trema(baseRadius, lv, kx, ky, kr) ==
    [cx |-> randRange(-Unit, Unit, kx),
     cy |-> randRange(-Unit, Unit, ky),
     r |-> jitter(levelRadius(baseRadius, lv), kr),
     level |-> lv]

\* one pass of the inner loop body, lines 83-89; the centre draws come from CD
\* and the jitter draw from JD
buildTremasPush(CD, JD) ==
    /\ pc = "build"
    /\ level < params.depth
    /\ i < count(params.density, level)
    /\ \E kx \in CD, ky \in CD, kr \in JD :
          tremas' = Append(tremas, trema(params.baseRadius, level, kx, ky, kr))
    /\ i' = i + 1
    /\ UNCHANGED <<level, pc, uiVars, sampleVars, data, gpuVars>>

\* the inner loop ends, level++ (line 77)
buildTremasNextLevel ==
    /\ pc = "build"
    /\ level < params.depth
    /\ ~(i < count(params.density, level))
    /\ level' = level + 1
    /\ i' = 0
    /\ UNCHANGED <<tremas, pc, uiVars, sampleVars, data, gpuVars>>

\* Math.floor(params.samples), line 158; samples is counted in 1/SamplesDen
SamplesDen == 2
floorSamples(v) == v \div SamplesDen

\* return tremas (line 91) into regenerate, which calls
\* generatePointsFromTremas(tremas, Math.floor(params.samples)) (lines 96-100)
buildTremasReturn ==
    /\ pc = "build"
    /\ ~(level < params.depth)
    /\ pc' = "sample"
    /\ samples' = floorSamples(params.samples)
    /\ positions' = <<>>
    /\ colors' = <<>>
    /\ levels' = <<>>
    /\ attempts' = 0
    /\ UNCHANGED <<buildVars, uiVars, data, gpuVars>>

----------------------------------------------------------------------------
(* generatePointsFromTremas, lines 95-129 *)

\* const maxAttempts = samples * 10
maxAttempts(n) == n * 10

\* defect variant of loopCondition: line 101 with attempts <= maxAttempts
loopCondition_OneMore(n, len, att) == len < 2 * n /\ att <= maxAttempts(n)

\* defect variant of loopCondition: line 101 without the test of
\* positions.length
loopCondition_NoLengthTest(n, len, att) == att < maxAttempts(n)

\* the loop condition of line 101; positions.length / 2 < samples is written
\* without the division
loopCondition(n, len, att) == len < 2 * n /\ att < maxAttempts(n)

\* dx*dx + dy*dy of line 110, and d2 of line 122, in 1/Unit2
dist2(c, x, y) == (x - c.cx) * (x - c.cx) + (y - c.cy) * (y - c.cy)

\* defect variant of insideTrema: line 109 with dy computed from x,
\* const dx = x - c.cx, dy = x - c.cy
insideTrema_DyFromX(c, x, y) ==
    (x - c.cx) * (x - c.cx) + (x - c.cy) * (x - c.cy) < c.r * c.r

\* the test of line 110
insideTrema(c, x, y) == dist2(c, x, y) < c.r * c.r

\* the scan of lines 106-111 from index k on (the break ends it at the first hit)
RECURSIVE insideFrom(_, _, _, _)
insideFrom(ts, x, y, k) ==
    IF k > Len(ts) THEN FALSE
    ELSE IF insideTrema(ts[k], x, y) THEN TRUE
    ELSE insideFrom(ts, x, y, k + 1)

\* defect variant of inside: the scan of line 107 starting at i = 1, so that
\* the first circle is never tested
inside_SkipFirst(ts, x, y) == insideFrom(ts, x, y, 2)

inside(ts, x, y) == insideFrom(ts, x, y, 1)

\* let minD = 1e9, line 119: a squared length is kept as whole units plus a
\* remainder in 1/Unit2, so that 1e9 is written without scaling it
minDInit == [whole |-> 1000000000, frac |-> 0]
asD(d) == [whole |-> d \div Unit2, frac |-> d % Unit2]

\* defect variant of lessD: line 123 with d2 <= minD, so that the last of the
\* nearest circles wins
lessD_OrEqual(a, b) == a.whole < b.whole \/ (a.whole = b.whole /\ a.frac <= b.frac)

\* d2 < minD, line 123
lessD(a, b) == a.whole < b.whole \/ (a.whole = b.whole /\ a.frac < b.frac)

\* the scan of lines 118-124 from index k on, with the running minD and nearLevel
RECURSIVE nearLevelFrom(_, _, _, _, _, _)
nearLevelFrom(ts, x, y, k, minD, near) ==
    IF k > Len(ts) THEN near
    ELSE IF lessD(asD(dist2(ts[k], x, y)), minD)
         THEN nearLevelFrom(ts, x, y, k + 1, asD(dist2(ts[k], x, y)), ts[k].level)
         ELSE nearLevelFrom(ts, x, y, k + 1, minD, near)

\* defect variant of nearLevel: line 118 with let nearLevel = 1
nearLevel_StartsAtOne(ts, x, y) == nearLevelFrom(ts, x, y, 1, minDInit, 1)

nearLevel(ts, x, y) == nearLevelFrom(ts, x, y, 1, minDInit, 0)

\* Math.max(...tremas.map(t => t.level)) of a non-empty array
RECURSIVE maxLevelFrom(_, _)
maxLevelFrom(ts, k) ==
    IF k = Len(ts) THEN ts[k].level
    ELSE Max(ts[k].level, maxLevelFrom(ts, k + 1))

\* the divisor of line 125
levelDivisor(ts) == Max(1, IF Len(ts) > 0 THEN maxLevelFrom(ts, 1) ELSE 1)

\* the value pushed at line 125, as the fraction num / den
levelFactor(ts, x, y) == [num |-> nearLevel(ts, x, y), den |-> levelDivisor(ts)]

\* the three values pushed at line 116, in 1/(100*RandDen): cval is drawn first
\* (line 115, draw kv), then the two other channels (draws k1, k2)
colorOf(kv, k1, k2) ==
    <<20 * RandDen + 60 * k1, 35 * RandDen + 55 * k2, 40 * RandDen + 60 * kv>>

\* one pass of the loop body whose candidate is inside a trema, lines 102-111;
\* the candidate draws come from PD
generatePointsReject(PD) ==
    /\ pc = "sample"
    /\ loopCondition(samples, Len(positions), attempts)
    /\ \E kx \in PD, ky \in PD :
          inside(tremas, randRange(-Unit, Unit, kx), randRange(-Unit, Unit, ky))
    /\ attempts' = attempts + 1
    /\ UNCHANGED <<samples, positions, colors, levels, pc, buildVars, uiVars, data, gpuVars>>

\* one pass of the loop body whose candidate is accepted, lines 102-126; the
\* candidate draws come from PD and the colour draws from KD
generatePointsAccept(PD, KD) ==
    /\ pc = "sample"
    /\ loopCondition(samples, Len(positions), attempts)
    /\ \E kx \in PD, ky \in PD, kv \in KD, k1 \in KD, k2 \in KD :
          LET x == randRange(-Unit, Unit, kx)
              y == randRange(-Unit, Unit, ky)
          IN  /\ ~inside(tremas, x, y)
              /\ positions' = positions \o <<x, y>>
              /\ colors' = colors \o colorOf(kv, k1, k2)
              /\ levels' = Append(levels, levelFactor(tremas, x, y))
    /\ attempts' = attempts + 1
    /\ UNCHANGED <<samples, pc, buildVars, uiVars, data, gpuVars>>

\* the return of line 128
generatePointsReturn ==
    /\ pc = "sample"
    /\ ~loopCondition(samples, Len(positions), attempts)
    /\ data' = [positions |-> positions, colors |-> colors, levels |-> levels]
    /\ pc' = "upload"
    /\ UNCHANGED <<sampleVars, buildVars, uiVars, gpuVars>>

----------------------------------------------------------------------------
(* uploadAndDraw and regenerate, lines 132-162 *)

\* defect variant of countOf: line 152 without the division by 2
countOf_NoHalving(d) == Len(d.positions)

\* currentCount = data.positions.length / 2, line 152
countOf(d) == Len(d.positions) \div 2

\* uploadAndDraw(data): the three bufferData calls and the count, lines 133-153
uploadAndDraw ==
    /\ pc = "upload"
    /\ posBuffer' = data.positions
    /\ colorBuffer' = data.colors
    /\ levelBuffer' = data.levels
    /\ currentCount' = countOf(data)
    /\ pc' = "cache"
    /\ UNCHANGED <<lastTremas, data, buildVars, sampleVars, uiVars>>

\* window._lastTremas = tremas (line 161) and the return of regenerate; the
\* locals of the call die.  The initial call (line 165) returns into the
\* script, which goes on to resizeCanvas() (line 175)
regenerateReturn(Sizes) ==
    /\ pc = "cache"
    /\ lastTremas' = tremas
    /\ pc' = "idle"
    /\ tremas' = <<>> /\ level' = 0 /\ i' = 0
    /\ samples' = 0 /\ positions' = <<>> /\ colors' = <<>> /\ levels' = <<>>
    /\ attempts' = 0
    /\ IF event = "load" THEN canvas' \in Sizes ELSE canvas' = canvas
    /\ runs' = runs + 1
    /\ UNCHANGED <<params, animPaused, frame, event, data,
                   posBuffer, colorBuffer, levelBuffer, currentCount>>

\* entering regenerate(): line 157 calls buildTremas with the current params
regenerate ==
    /\ pc' = "build"
    /\ tremas' = <<>> /\ level' = 0 /\ i' = 0
    /\ UNCHANGED <<sampleVars, data, gpuVars>>

\* a handler that returns without calling regenerate
noRegenerate ==
    /\ pc' = "idle"
    /\ UNCHANGED <<buildVars, sampleVars, data, gpuVars>>

----------------------------------------------------------------------------
(* Script load and the event handlers *)

\* the initial regenerate() of line 165
load ==
    /\ pc = "load"
    /\ event' = "load"
    /\ runs' = 0
    /\ regenerate
    /\ UNCHANGED <<params, animPaused, canvas, frame>>

\* defect variant of regenerates: line 50 with "speed" in the list
regenerates_WithSpeed(key) ==
    key \in {"depth", "density", "baseRadius", "samples", "speed"}

\* the list of line 50
regenerates(key) == key \in {"depth", "density", "baseRadius", "samples"}

\* the "input" listener installed by bind(id, key, ...), lines 47-53, for the
\* control's new value v
bindInput(key, v) ==
    /\ pc = "idle"
    /\ params' = [params EXCEPT ![key] = v]
    /\ event' = key
    /\ IF regenerates(key)
         THEN regenerate
         ELSE noRegenerate
    /\ runs' = 0
    /\ UNCHANGED <<animPaused, canvas, frame>>

\* regenBtn.onclick = regenerate, line 61
regenBtnClick ==
    /\ pc = "idle"
    /\ event' = "regenBtn"
    /\ runs' = 0
    /\ regenerate
    /\ UNCHANGED <<params, animPaused, canvas, frame>>

\* window.regenerateFractal = regenerate, line 217
regenerateFractal ==
    /\ pc = "idle"
    /\ event' = "regenerateFractal"
    /\ runs' = 0
    /\ regenerate
    /\ UNCHANGED <<params, animPaused, canvas, frame>>

\* pauseBtn.onclick, lines 63-66
pauseBtnClick ==
    /\ pc = "idle"
    /\ animPaused' = ~animPaused
    /\ event' = "pauseBtn"
    /\ runs' = 0
    /\ noRegenerate
    /\ UNCHANGED <<params, canvas, frame>>

\* resizeCanvas as the "resize" listener, lines 168-174
resizeCanvas(Sizes) ==
    /\ pc = "idle"
    /\ canvas' \in Sizes
    /\ event' = "resize"
    /\ runs' = 0
    /\ noRegenerate
    /\ UNCHANGED <<params, animPaused, frame>>

\* gl.drawArrays(gl.POINTS, 0, currentCount), line 210: the draw reads count
\* vertices of the three bound buffers, whose lengths it finds as recorded
drawArrays(n) ==
    [count |-> n, pos |-> Len(posBuffer), col |-> Len(colorBuffer),
     lev |-> Len(levelBuffer), u_speed |-> params.speed,
     u_pointSize |-> params.pointSize]

\* one frame of renderLoop, lines 191-213 (the clock t and the matrix are not
\* modelled)
renderLoop ==
    /\ pc = "idle"
    /\ frame' = IF ~animPaused THEN drawArrays(currentCount) ELSE frame
    /\ event' = "frame"
    /\ runs' = 0
    /\ noRegenerate
    /\ UNCHANGED <<params, animPaused, canvas>>

----------------------------------------------------------------------------
(* Inputs *)

\* pointSize: 6.0, line 40
PointSize == 6
\* speed values of the control, in hundredths
Speeds == {60, 100}
\* client sizes of the canvas (clientWidth * dpr, clientHeight * dpr)
ClientSizes == {<<1, 1>>, <<2, 1>>}

\* the keys bound at lines 55-59
Keys == {"depth", "density", "baseRadius", "samples", "speed"}

noBatch == [positions |-> <<>>, colors |-> <<>>, levels |-> <<>>]
noFrame == [count |-> 0, pos |-> 0, col |-> 0, lev |-> 0, u_speed |-> 0, u_pointSize |-> 0]

\* the state in which nothing has been generated yet (lines 25-27, 62, 132)
Fresh ==
    /\ animPaused = FALSE
    /\ canvas = <<0, 0>>
    /\ frame = noFrame
    /\ tremas = <<>> /\ level = 0 /\ i = 0
    /\ samples = 0 /\ positions = <<>> /\ colors = <<>> /\ levels = <<>>
    /\ attempts = 0
    /\ data = noBatch
    /\ posBuffer = <<>> /\ colorBuffer = <<>> /\ levelBuffer = <<>>
    /\ currentCount = 0
    /\ lastTremas = <<>>

----------------------------------------------------------------------------
(* The program: script load, then events and frames.  The literal values   *)
(* of params (lines 35-38: 4, 0.4, 0.18, 20000) are beyond what can be      *)
(* enumerated: the script starts from any value the controls take here.     *)
(* The controls take few values, the circles of a field sit at one centre,  *)
(* the colour draws are 0, the candidates take UiRandRes values an axis.    *)

UiRandRes == 2
UiRand == 0 .. (UiRandRes - 1)
UiCenterDraws == {0}
UiJitterDraws == {0}
UiColorDraws == {0}

UiValues(key) ==
    CASE key = "depth" -> {0, 1}
      [] key = "density" -> {1, 2}
      [] key = "baseRadius" -> {5, 10}
      [] key = "samples" -> 0 .. (2 * SamplesDen - 1)
      [] key = "speed" -> Speeds

Init ==
    /\ params \in [depth : UiValues("depth"), density : UiValues("density"),
                   baseRadius : UiValues("baseRadius"), samples : UiValues("samples"),
                   speed : UiValues("speed"), pointSize : {PointSize}]
    /\ pc = "load"
    /\ event = "none"
    /\ runs = 0
    /\ Fresh

Next ==
    \/ load
    \/ \E key \in Keys : \E v \in UiValues(key) : bindInput(key, v)
    \/ regenBtnClick
    \/ regenerateFractal
    \/ pauseBtnClick
    \/ resizeCanvas(ClientSizes)
    \/ renderLoop
    \/ buildTremasPush(UiCenterDraws, UiJitterDraws)
    \/ buildTremasNextLevel
    \/ buildTremasReturn
    \/ generatePointsReject(UiRand)
    \/ generatePointsAccept(UiRand, UiColorDraws)
    \/ generatePointsReturn
    \/ uploadAndDraw
    \/ regenerateReturn(ClientSizes)

Spec == Init /\ [][Next]_vars

----------------------------------------------------------------------------
(* One call of regenerate(), for fields of at most one circle a level and   *)
(* every draw of rand() for the candidates                                  *)

GenDepths == {0, 1, 2}
GenDensities == {1}
GenBaseRadii == {5, 10}
GenSamples == {0, 1, 2}
\* the centres sit at -1 or in the middle of the range, the jitter is the
\* least or the middle one; the candidates take every draw
GenCenterDraws == {0, RandDen \div 2}
GenJitterDraws == {0, RandDen \div 2}
GenColorDraws == {0}

InitGen ==
    /\ params \in [depth : GenDepths, density : GenDensities,
                   baseRadius : GenBaseRadii,
                   samples : {n * SamplesDen : n \in GenSamples},
                   speed : {60}, pointSize : {PointSize}]
    /\ pc = "build"
    /\ event = "regenerateFractal"
    /\ runs = 0
    /\ Fresh

NextGen ==
    \/ buildTremasPush(GenCenterDraws, GenJitterDraws)
    \/ buildTremasNextLevel
    \/ buildTremasReturn
    \/ generatePointsReject(Rand)
    \/ generatePointsAccept(Rand, GenColorDraws)
    \/ generatePointsReturn
    \/ uploadAndDraw
    \/ regenerateReturn({<<1, 1>>})

SpecGen == InitGen /\ [][NextGen]_vars

----------------------------------------------------------------------------
(* One call of buildTremas(), for every depth up to MaxDepth; the centres   *)
(* sit at one place and the jitter takes its least and its greatest draw    *)

BuildDensities == {1, 2}
BuildBaseRadii == {2, 10}
BuildCenterDraws == {0}
BuildJitterDraws == {0, RandDen - 1}

InitBuild ==
    /\ params \in [depth : 0 .. MaxDepth, density : BuildDensities,
                   baseRadius : BuildBaseRadii, samples : {0},
                   speed : {60}, pointSize : {PointSize}]
    /\ pc = "build"
    /\ event = "regenerateFractal"
    /\ runs = 0
    /\ Fresh

NextBuild ==
    \/ buildTremasPush(BuildCenterDraws, BuildJitterDraws)
    \/ buildTremasNextLevel
    \/ buildTremasReturn

SpecBuild == InitBuild /\ [][NextBuild]_vars

----------------------------------------------------------------------------
(* Vocabulary of the claims, written without the operators of the model *)

\* the j-th point of a positions array
PointX(ps, j) == ps[2 * j - 1]
PointY(ps, j) == ps[2 * j]
NumPoints(ps) == Len(ps) \div 2

\* squared distance from the j-th point of ps to the centre of circle c
SqDist(ps, j, c) ==
    (PointX(ps, j) - c.cx) * (PointX(ps, j) - c.cx)
      + (PointY(ps, j) - c.cy) * (PointY(ps, j) - c.cy)

\* the batch under construction or returned, and the field it is tested against
BatchPositions == IF pc = "sample" THEN positions ELSE data.positions
BatchLevels == IF pc = "sample" THEN levels ELSE data.levels
BatchField == IF pc = "idle" THEN lastTremas ELSE tremas
InGeneration == pc \in {"sample", "upload", "cache"}
Returned == pc \in {"upload", "cache"}

----------------------------------------------------------------------------
(* C1 *)

----------------------------------------------------------------------------
(* C8 *)

----------------------------------------------------------------------------
(* C2 *)

\* C2: at every step of generatePointsFromTremas(field, n) the number of
\* accepted points is <= n and attempts <= 10 * n, and so is the returned batch
C2_BoundedOutput ==
    InGeneration =>
        /\ NumPoints(positions) <= samples
        /\ Len(positions) = 2 * NumPoints(positions)
        /\ attempts <= 10 * samples
        /\ Returned => NumPoints(data.positions) <= samples

\* the budget of 20 attempts is used up with the batch of n = 2 still short
C2_Witness ==
    /\ pc = "sample"
    /\ samples = 2
    /\ attempts = 20
    /\ NumPoints(positions) = 1

----------------------------------------------------------------------------
(* C9 *)

\* C9: the sampler never gets stuck and every pass of its loop counts one
\* attempt; when it returns, the batch has n points or attempts = 10 * n; no
\* candidate is drawn once n points are accepted
C9_UnderFillOnlyOnExhaustion ==
    /\ [](pc = "sample" =>
            ENABLED (generatePointsReject(Rand) \/ generatePointsAccept(Rand, GenColorDraws)
                       \/ generatePointsReturn))
    /\ [](Returned => (NumPoints(data.positions) = samples \/ attempts = 10 * samples))
    /\ [][(pc = "sample" /\ pc' = "sample") =>
             (attempts' = attempts + 1 /\ NumPoints(positions) < samples)]_vars
    /\ [][(pc = "sample" /\ pc' # "sample") =>
             (attempts' = attempts /\ data'.positions = positions)]_vars

\* a short batch is returned for n = 2 after 20 attempts
C9_Witness ==
    /\ pc = "upload"
    /\ samples = 2
    /\ NumPoints(data.positions) = 1
    /\ attempts = 20

----------------------------------------------------------------------------
(* C4 *)

\* index of the circle of ts nearest to the j-th point of ps: least squared
\* centre distance, and the first in ts among those at that distance
Nearest(ps, j, ts) ==
    CHOOSE k \in 1 .. Len(ts) :
        /\ \A m \in 1 .. Len(ts) : SqDist(ps, j, ts[k]) <= SqDist(ps, j, ts[m])
        /\ \A m \in 1 .. (k - 1) : SqDist(ps, j, ts[m]) > SqDist(ps, j, ts[k])

\* the greatest level carried by a circle of ts
TopLevel(ts) ==
    CHOOSE v \in {ts[k].level : k \in 1 .. Len(ts)} :
        \A k \in 1 .. Len(ts) : ts[k].level <= v

----------------------------------------------------------------------------
(* C5 *)

\* C5: with depth = 0 the field is empty, no candidate is rejected (every
\* attempt appends a point), every levelFactor is 0, and the call returns
\* exactly n points after exactly n attempts
C5_EmptyFieldPassThrough ==
    (InGeneration /\ params.depth = 0) =>
        /\ tremas = <<>>
        /\ NumPoints(positions) = attempts
        /\ \A j \in 1 .. Len(levels) : levels[j].num = 0 /\ levels[j].den > 0
        /\ Returned =>
              /\ attempts = samples
              /\ NumPoints(data.positions) = samples
              /\ Len(data.levels) = samples
              /\ \A j \in 1 .. Len(data.levels) : data.levels[j].num = 0

\* two points returned over the empty field
C5_Witness ==
    /\ pc = "upload"
    /\ params.depth = 0
    /\ tremas = <<>>
    /\ NumPoints(data.positions) = 2

----------------------------------------------------------------------------
(* C3 *)

\* max(1, floor(density * 2^(L+1) * 30)) for the density of the call
LevelCount(L) ==
    LET v == (params.density * (2 ^ (L + 1)) * 30) \div 100
    IN  IF v >= 1 THEN v ELSE 1

RECURSIVE SumLevelCounts(_)
SumLevelCounts(d) == IF d = 0 THEN 0 ELSE SumLevelCounts(d - 1) + LevelCount(d - 1)

CirclesAt(ts, L) == Cardinality({k \in 1 .. Len(ts) : ts[k].level = L})

\* C3: buildTremas(depth, density, baseRadius) returns exactly
\* max(1, floor(density * 2^(L+1) * 30)) circles of each level L in 0..depth-1
\* and no other circle; density 0.4 gives 24 circles at level 0
C3_LevelCount ==
    /\ count(40, 0) = 24
    /\ pc = "sample" =>
          /\ Len(tremas) = SumLevelCounts(params.depth)
          /\ \A L \in 0 .. (params.depth - 1) :
                CirclesAt(tremas, L) = LevelCount(L) /\ LevelCount(L) >= 1
          /\ \A k \in 1 .. Len(tremas) : tremas[k].level \in 0 .. (params.depth - 1)

\* a field of three levels whose level 0 has its one circle by the floor of 1
\* (floor(0.6) = 0) and whose level 2 has floor(2.4) = 2 circles
C3_Witness ==
    /\ pc = "sample"
    /\ params.depth = 3
    /\ params.density = 1
    /\ Len(tremas) = 4
    /\ CirclesAt(tremas, 2) = 2

----------------------------------------------------------------------------
(* C10 *)

\* C10: a circle of level L has 0.8 * baseRadius * 0.5^L <= r
\* < 1.2 * baseRadius * 0.5^L, r > 0 and level < depth; of two circles the one
\* of the deeper level has the strictly smaller radius
C10_RadiusOrdering ==
    /\ \A k \in 1 .. Len(tremas) :
          LET c == tremas[k]
          IN  /\ c.level \in 0 .. (params.depth - 1)
              /\ c.r > 0
              /\ 8 * params.baseRadius * Unit <= c.r * 100 * (2 ^ c.level)
              /\ c.r * 100 * (2 ^ c.level) < 12 * params.baseRadius * Unit
    /\ \A k \in 1 .. Len(tremas) : \A m \in 1 .. Len(tremas) :
          tremas[k].level < tremas[m].level => tremas[m].r < tremas[k].r

\* a level-0 circle at the least jitter together with a level-1 circle at the
\* greatest jitter
C10_Witness ==
    /\ pc = "sample"
    /\ \E k \in 1 .. Len(tremas) : \E m \in 1 .. Len(tremas) :
          /\ tremas[k].level = 0
          /\ tremas[m].level = 1
          /\ 10 * tremas[k].r = 8 * levelRadius(params.baseRadius, 0)
          /\ 10 * tremas[m].r > 10 * levelRadius(params.baseRadius, 1)

----------------------------------------------------------------------------
(* C6 *)

\* the events the claim lets run regenerate, and those it does not
Triggers == {"load", "regenBtn", "regenerateFractal",
             "depth", "density", "baseRadius", "samples"}
NonTriggers == {"speed", "pauseBtn", "resize", "frame"}

Uploaded == <<posBuffer, colorBuffer, levelBuffer, currentCount, lastTremas>>

\* C6: the handler of the initial load, of a regenBtn click, of a
\* regenerateFractal call and of an input on depth, density, baseRadius or
\* samples runs regenerate exactly once; the handler of an input on speed, of
\* a pause click, of a resize and of a frame never enters regenerate and leaves
\* the three buffers, currentCount and window._lastTremas unchanged
C6_GenerationTriggers ==
    /\ [](pc = "idle" => /\ event \in Triggers => runs = 1
                         /\ event \in NonTriggers => runs = 0
                         /\ event \in Triggers \cup NonTriggers)
    /\ [](pc \notin {"idle", "load"} => event \in Triggers /\ runs = 0)
    /\ [][(pc = "idle" /\ event' \in NonTriggers) =>
             (pc' = "idle" /\ Uploaded' = Uploaded)]_vars
    /\ [][(pc \in {"idle", "load"} /\ event' \in Triggers) => pc' = "build"]_vars
    /\ [][Uploaded' # Uploaded => pc \in {"upload", "cache"}]_vars

\* a speed input handled while a one-point batch is uploaded
C6_Witness ==
    /\ pc = "idle"
    /\ event = "speed"
    /\ runs = 0
    /\ currentCount = 1
    /\ params.speed = 100

----------------------------------------------------------------------------
(* C7 *)

\* C7: whenever a frame can run, the three buffers hold the batch returned by
\* the latest regenerate, with 2N, 3N and N values for N = currentCount; the
\* last frame drew N points out of buffers of 2N, 3N and N values
C7_BatchPublication ==
    /\ pc = "idle" =>
          /\ posBuffer = data.positions
          /\ colorBuffer = data.colors
          /\ levelBuffer = data.levels
          /\ Len(posBuffer) = 2 * currentCount
          /\ Len(colorBuffer) = 3 * currentCount
          /\ Len(levelBuffer) = currentCount
    /\ frame.pos = 2 * frame.count
    /\ frame.col = 3 * frame.count
    /\ frame.lev = frame.count

\* a frame drew a batch of one point, and a later regenerate over a field of
\* one circle has replaced that batch by an empty one
C7_Witness ==
    /\ pc = "idle"
    /\ frame.count = 1
    /\ currentCount = 0
    /\ Len(lastTremas) = 1
    /\ posBuffer = <<>>

====
